---- MODULE Spec2Model ----
(***************************************************************************)
(* AI Code Architect: the ingestion -> generation -> chat bootstrap        *)
(* pipeline of the App component (src/unnamed/part_000, src/App.tsx) and   *)
(* the Gemini service (src/services/geminiService.ts).                     *)
(*                                                                         *)
(* The state is the React state of App (useState / useRef cells), the      *)
(* localStorage entry holding the credential, and the continuations of the *)
(* async handlers that are suspended at an await: processFiles awaiting a  *)
(* file read, handleGenerate awaiting generateDocFromCode or               *)
(* createChatSession.  Every action is one run of JavaScript between two   *)
(* suspension points: an event handler up to its first await, or the       *)
(* continuation of an await up to the next one.                            *)
(*                                                                         *)
(* The chat view (ChatInterface, src/unnamed/part_001) is mounted by App   *)
(* while the chat tab is active; its state cells live as long as it is     *)
(* mounted.  handleSend awaiting sendMessage is one more continuation.     *)
(*                                                                         *)
(* Strings are TLA+ strings; an optional value (null or v) is <<>> or <<v>>.*)
(***************************************************************************)
EXTENDS Integers, Sequences, FiniteSets, TLC

VARIABLES
  code,            \* useState<string>         part_000:43
  fileList,        \* useState<FileItem[]>     part_000:44
  docResult,       \* useState<string>         part_000:45
  appState,        \* useState<AppState>       part_000:46
  isReading,       \* useState<boolean>        part_000:50
  isKeyModalOpen,  \* useState<boolean>        part_000:51
  hasApiKey,       \* useState<boolean>        part_000:53
  activeTab,       \* useState<'doc'|'chat'>   part_000:54
  chatSessionRef,  \* useRef<Chat | null>      part_000:57
  storedKey,       \* localStorage['gemini_api_key']
  readers,         \* processFiles invocations suspended at await readFileContent
  cycles,          \* handleGenerate invocations suspended at an await
  messages,        \* ChatInterface useState<ChatMessage[]>  part_001:72
  input,           \* ChatInterface useState('')             part_001:73
  isSending,       \* ChatInterface useState(false)          part_001:74
  sends,           \* handleSend invocations suspended at await sendMessage
  now,             \* the clock that Date.now() reads
  calls,           \* service functions called directly, suspended at an await
  lastOp,          \* history: <<event, input>> of the last step
  cleared          \* history: cleared and no file selection completed since

vars == <<code, fileList, docResult, appState, isReading, isKeyModalOpen,
          hasApiKey, activeTab, chatSessionRef, storedKey,
          readers, cycles, messages, input, isSending, sends, now, calls,
          lastOp, cleared>>

-----------------------------------------------------------------------------
(* Bounds of the model                                                     *)

\* files in one selection
MaxFiles == 3
\* processFiles invocations suspended at the same time
MaxReaders == 2
\* handleGenerate invocations suspended at the same time
MaxCycles == 2
\* service functions called directly and suspended at their await
MaxCalls == 2
\* handleSend invocations suspended at the same time
MaxSends == 2
\* messages in the transcript of the chat view
MaxMessages == 5
\* the last reading of the clock
MaxClock == 1

-----------------------------------------------------------------------------
(* Optional values                                                         *)

Null == <<>>
Some(v) == <<v>>
Val(o) == o[1]

-----------------------------------------------------------------------------
(* String functions of JavaScript used by the handlers                     *)

CharAt(s, i) == SubSeq(s, i, i)

IsSpace(c) == c \in {" ", "\n", "\t", "\r"}

RECURSIVE TrimStart(_)
TrimStart(s) ==
  IF Len(s) > 0 /\ IsSpace(CharAt(s, 1)) THEN TrimStart(SubSeq(s, 2, Len(s))) ELSE s

RECURSIVE TrimEnd(_)
TrimEnd(s) ==
  IF Len(s) > 0 /\ IsSpace(CharAt(s, Len(s))) THEN TrimEnd(SubSeq(s, 1, Len(s) - 1)) ELSE s

\* String.prototype.trim
Trim(s) == TrimEnd(TrimStart(s))

\* String.prototype.startsWith
StartsWith(s, p) == Len(p) <= Len(s) /\ SubSeq(s, 1, Len(p)) = p

\* String.prototype.endsWith
EndsWith(s, p) == Len(p) <= Len(s) /\ SubSeq(s, Len(s) - Len(p) + 1, Len(s)) = p

\* String.prototype.includes
Includes(s, p) == \E i \in 1..(Len(s) - Len(p) + 1) : SubSeq(s, i, i + Len(p) - 1) = p

UpperChars == <<"A", "B", "C", "D", "E", "F", "G", "H", "I", "J", "K", "L", "M",
                "N", "O", "P", "Q", "R", "S", "T", "U", "V", "W", "X", "Y", "Z">>
LowerChars == <<"a", "b", "c", "d", "e", "f", "g", "h", "i", "j", "k", "l", "m",
                "n", "o", "p", "q", "r", "s", "t", "u", "v", "w", "x", "y", "z">>

LowerChar(c) ==
  IF \E k \in 1..Len(UpperChars) : UpperChars[k] = c
  THEN LowerChars[CHOOSE k \in 1..Len(UpperChars) : UpperChars[k] = c]
  ELSE c

RECURSIVE ToLowerCase(_)
\* String.prototype.toLowerCase
ToLowerCase(s) ==
  IF Len(s) = 0 THEN "" ELSE LowerChar(CharAt(s, 1)) \o ToLowerCase(SubSeq(s, 2, Len(s)))

\* JavaScript truthiness of a string | null
Truthy(o) == o # Null /\ Val(o) # ""

-----------------------------------------------------------------------------
(* Corpus Assembler: the filters and the entry format of processFiles      *)

IGNORED_DIRS == <<"node_modules", ".git", "dist", "build", ".next", "coverage",
                  ".idea", ".vscode">>

ALLOWED_EXTENSIONS == <<".ts", ".tsx", ".js", ".jsx", ".json", ".css", ".scss",
                        ".html", ".md", ".sql", ".prisma", ".py", ".go", ".rs">>

\* const path = file.webkitRelativePath || file.name
PathOf(file) == IF file.webkitRelativePath # "" THEN file.webkitRelativePath ELSE file.name

InIgnoredDir_Substring(path) ==
  \E k \in 1..Len(IGNORED_DIRS) : Includes(path, IGNORED_DIRS[k])

\* IGNORED_DIRS.some(dir => path.includes(`/${dir}/`) || path.startsWith(`${dir}/`))
InIgnoredDir(path) ==
  \E k \in 1..Len(IGNORED_DIRS) :
    \/ Includes(path, "/" \o IGNORED_DIRS[k] \o "/")
    \/ StartsWith(path, IGNORED_DIRS[k] \o "/")

IsAllowed_CaseSensitive(path) ==
  \E k \in 1..Len(ALLOWED_EXTENSIONS) : EndsWith(path, ALLOWED_EXTENSIONS[k])

\* ALLOWED_EXTENSIONS.some(ext => path.toLowerCase().endsWith(ext))
IsAllowed(path) ==
  LET lower == ToLowerCase(path)
  IN \E k \in 1..Len(ALLOWED_EXTENSIONS) : EndsWith(lower, ALLOWED_EXTENSIONS[k])

\* a file that reaches the read (neither `continue` is taken)
Accepted(file) == ~InIgnoredDir(PathOf(file)) /\ IsAllowed(PathOf(file))

Entry_OneNewline(path, content) ==
  "--- START OF FILE " \o path \o " ---\n" \o content \o "\n"

\* `--- START OF FILE ${path} ---\n${content}\n\n`
Entry(path, content) == "--- START OF FILE " \o path \o " ---\n" \o content \o "\n\n"

\* { path, size: file.size }
Item(file) == [path |-> PathOf(file), size |-> file.size]

RECURSIVE NextAccepted(_, _)
\* the for loop of processFiles from index i on: the first file that is read
NextAccepted(files, i) ==
  IF i > Len(files) THEN i
  ELSE IF Accepted(files[i]) THEN i
  ELSE NextAccepted(files, i + 1)

(* The files a user can select (scenario A of the specification) *)
FileA == [webkitRelativePath |-> "src/a.ts", name |-> "a.ts", content |-> "x", size |-> 1]
FileB == [webkitRelativePath |-> "node_modules/b.js", name |-> "b.js", content |-> "y", size |-> 1]
FileR == [webkitRelativePath |-> "", name |-> "README.md", content |-> "z", size |-> 1]

IsInjective(s) == \A i, j \in DOMAIN s : s[i] = s[j] => i = j

\* the FileLists over the files U: non-empty sequences of distinct files
SelectionsOf(U, n) == {s \in UNION {[1..m -> U] : m \in 1..n} : IsInjective(s)}

\* a file whose content holds a line of the header form
FileS == [webkitRelativePath |-> "", name |-> "s.md",
          content |-> "--- START OF FILE q ---\n", size |-> 24]

\* a file of several lines, one of them blank, ending with a newline
FileM == [webkitRelativePath |-> "docs/m.md", name |-> "m.md",
          content |-> "a\n\nb\n", size |-> 5]

\* selections of the assembler specification
AssembleSelections == SelectionsOf({FileA, FileB, FileR, FileS, FileM}, MaxFiles)

(* Files for the two filters *)
FileN == [webkitRelativePath |-> "my_node_modules/a.ts", name |-> "a.ts",
          content |-> "n", size |-> 1]
FileD == [webkitRelativePath |-> "src/distx/a.ts", name |-> "a.ts",
          content |-> "d", size |-> 1]
FileG == [webkitRelativePath |-> "pkg/.git/c.json", name |-> "c.json",
          content |-> "g", size |-> 1]
FileT == [webkitRelativePath |-> "", name |-> "A.TS", content |-> "t", size |-> 1]
FileE == [webkitRelativePath |-> "", name |-> "a.exe", content |-> "e", size |-> 1]
FileK == [webkitRelativePath |-> "", name |-> "Makefile", content |-> "k", size |-> 1]

\* selections of the filter specification
FilterSelections ==
  SelectionsOf({FileB, FileN, FileD, FileG, FileT, FileE, FileK}, MaxFiles)

\* selections of the repeated-selection specification
RerunSelections == {<<FileA, FileR>>, <<FileR>>}

\* selections of the workflow specification: one file each
WorkflowSelections == {<<FileA>>, <<FileB>>}

-----------------------------------------------------------------------------
(* Gemini service                                                          *)

\* what the remote generateContent call can answer: a response with a text
\* (possibly empty), or a thrown value (an Error with a message, or not an Error)
DocTexts == {"# Doc", ""}
Thrown == {[isError |-> TRUE, message |-> "quota exceeded"],
           [isError |-> FALSE, message |-> ""]}

ResponseText_NoPlaceholder(text) == text

\* return response.text || "No response generated."
ResponseText(text) == IF text # "" THEN text ELSE "No response generated."

createChatSession_Unseeded(apiKey, fileContext, generatedDoc) == [history |-> <<>>]

\* ai.chats.create({ ..., history: [...] }); the three framing texts and the
\* acknowledgment, fixed texts in Chinese, are given by short fixed texts
createChatSession(apiKey, fileContext, generatedDoc) ==
  [history |->
     << [role |-> "user",
         parts |-> << "SOURCE:", fileContext, "\n\nDOC:", generatedDoc, "\n\nREADY?" >>],
        [role |-> "model", parts |-> << "ACK" >>] >>]

-----------------------------------------------------------------------------
(* Initial state: App mounted, the mount effect (part_000:64-67) has run   *)

KeyInputs == {"  ", " k1 "}

Init ==
  /\ code = ""
  /\ fileList = <<>>
  /\ docResult = ""
  /\ appState = "IDLE"
  /\ isReading = FALSE
  /\ isKeyModalOpen = FALSE
  /\ storedKey \in {Null, Some("k1")}
  /\ hasApiKey = Truthy(storedKey)
  /\ activeTab = "doc"
  /\ chatSessionRef = Null
  /\ readers = <<>>
  /\ cycles = <<>>
  /\ messages = <<>>
  /\ input = ""
  /\ isSending = FALSE
  /\ sends = <<>>
  /\ now = 0
  /\ calls = <<>>
  /\ lastOp = <<"mount", "">>
  /\ cleared = FALSE

\* const hasFiles = fileList.length > 0: WorkbenchView is mounted, else LandingView
hasFiles == Len(fileList) > 0

RemoveAt(s, k) == SubSeq(s, 1, k - 1) \o SubSeq(s, k + 1, Len(s))

\* createChatSession (geminiService.ts:126-160) awaits nothing: the promise that
\* handleGenerate awaits is already settled, and its continuation is a
\* microtask, which runs before the next event or completion is handled
NoMicrotask == \A k \in 1..Len(cycles) : cycles[k].pc # "chat"

-----------------------------------------------------------------------------
(* The chat view as App renders it                                         *)

\* {activeTab === 'doc' ? ... : <ChatInterface chatSession={chatSessionRef.current} />}
\* inside WorkbenchView, which App renders when hasFiles
ChatMounted == hasFiles /\ activeTab = "chat"

\* the greeting effect: if (chatSession && messages.length === 0) setMessages([{ id: 'init', ... }])
\* (the text, a fixed text in Chinese, is given by a short fixed text)
Greeting == [id |-> "init", role |-> "model", text |-> "GREETING", timestamp |-> now]

\* the continuations of an unmounted ChatInterface: their state setters do nothing
Orphaned(ss) == [k \in 1..Len(ss) |-> [ss[k] EXCEPT !.live = FALSE]]

\* the continuations whose session is no longer the one chatSessionRef holds
Superseded(ss) == [k \in 1..Len(ss) |-> [ss[k] EXCEPT !.current = FALSE]]

\* the step assigns chatSessionRef.current: to null (handleGenerate,
\* handleClearWorkspace) or to a session that createChatSession made
SessionReplaced ==
  \/ chatSessionRef' # chatSessionRef
  \/ lastOp' = <<"sessionDone", TRUE>>

\* The render that follows a step of App and the effects of ChatInterface:
\* unmounted, its state cells are gone; mounted anew, they start from their
\* initial values and the greeting effect runs; kept mounted, the greeting
\* effect runs when its dependencies ask for it. The chatSession prop is
\* taken to be chatSessionRef.current as the step leaves it.
RenderChat ==
  /\ IF ~(Len(fileList') > 0 /\ activeTab' = "chat")
     THEN /\ messages' = <<>>
          /\ input' = ""
          /\ isSending' = FALSE
     ELSE IF ~ChatMounted
     THEN /\ messages' = IF chatSessionRef' # Null THEN <<Greeting>> ELSE <<>>
          /\ input' = ""
          /\ isSending' = FALSE
     ELSE /\ messages' = IF chatSessionRef' # Null /\ messages = <<>>
                         THEN <<Greeting>> ELSE messages
          /\ UNCHANGED <<input, isSending>>
  /\ sends' = LET mounted == IF Len(fileList') > 0 /\ activeTab' = "chat"
                             THEN sends ELSE Orphaned(sends)
              IN IF SessionReplaced THEN Superseded(mounted) ELSE mounted

-----------------------------------------------------------------------------
(* Workflow Controller: handleGenerate                                     *)

GenerateDisabled_WhenSuccess == appState = "SUCCESS"

GenerateDisabled_Never == FALSE

GenerateDisabled_UnlessIdle == appState # "IDLE"

\* <button onClick={handleGenerate} disabled={appState === AppState.GENERATING}>
GenerateDisabled == appState = "GENERATING"

CorpusEmpty_Never(text) == FALSE

\* if (!code.trim()) return;
CorpusEmpty(text) == Trim(text) = ""

\* if (!apiKey) { setIsKeyModalOpen(true); return; }
KeyMissing(apiKey) == ~Truthy(apiKey)

\* the continuation created by `await generateDocFromCode(apiKey, code)`: the
\* closure keeps the apiKey and the code of the render that was clicked
NewCycle(apiKey, text) == [pc |-> "doc", apiKey |-> apiKey, code |-> text, markdown |-> ""]

handleGenerate_KeyError ==
  IF CorpusEmpty(code)
  THEN UNCHANGED <<appState, docResult, chatSessionRef, activeTab, cycles, isKeyModalOpen>>
  ELSE IF KeyMissing(storedKey)
  THEN /\ appState' = "ERROR"
       /\ UNCHANGED <<isKeyModalOpen, docResult, chatSessionRef, activeTab, cycles>>
  ELSE /\ Len(cycles) < MaxCycles
       /\ appState' = "GENERATING"
       /\ docResult' = ""
       /\ chatSessionRef' = Null
       /\ activeTab' = "doc"
       /\ cycles' = Append(cycles, NewCycle(Val(storedKey), code))
       /\ UNCHANGED isKeyModalOpen

handleGenerate_KeepSession ==
  IF CorpusEmpty(code)
  THEN UNCHANGED <<appState, docResult, chatSessionRef, activeTab, cycles, isKeyModalOpen>>
  ELSE IF KeyMissing(storedKey)
  THEN /\ isKeyModalOpen' = TRUE
       /\ UNCHANGED <<appState, docResult, chatSessionRef, activeTab, cycles>>
  ELSE /\ Len(cycles) < MaxCycles
       /\ appState' = "GENERATING"
       /\ docResult' = ""
       /\ activeTab' = "doc"
       /\ cycles' = Append(cycles, NewCycle(Val(storedKey), code))
       /\ UNCHANGED <<isKeyModalOpen, chatSessionRef>>

\* handleGenerate up to its first await
handleGenerate ==
  IF CorpusEmpty(code)
  THEN UNCHANGED <<appState, docResult, chatSessionRef, activeTab, cycles, isKeyModalOpen>>
  ELSE IF KeyMissing(storedKey)
  THEN /\ isKeyModalOpen' = TRUE
       /\ UNCHANGED <<appState, docResult, chatSessionRef, activeTab, cycles>>
  ELSE /\ Len(cycles) < MaxCycles
       /\ appState' = "GENERATING"
       /\ docResult' = ""
       /\ chatSessionRef' = Null
       /\ activeTab' = "doc"
       /\ cycles' = Append(cycles, NewCycle(Val(storedKey), code))
       /\ UNCHANGED isKeyModalOpen

\* a click on the Generate button of WorkbenchView
ClickGenerate ==
  /\ NoMicrotask
  /\ hasFiles
  /\ IF GenerateDisabled
     THEN UNCHANGED <<appState, docResult, chatSessionRef, activeTab, cycles, isKeyModalOpen>>
     ELSE handleGenerate
  /\ lastOp' = <<"clickGenerate", appState>>
  /\ UNCHANGED <<code, fileList, isReading, hasApiKey, storedKey, readers, cleared>>
  /\ RenderChat
  /\ UNCHANGED <<now, calls>>

\* handleGenerate called by the presentation layer in any state (no button)
CallGenerate ==
  /\ NoMicrotask
  /\ handleGenerate
  /\ lastOp' = <<"handleGenerate", appState>>
  /\ UNCHANGED <<code, fileList, isReading, hasApiKey, storedKey, readers, cleared>>
  /\ RenderChat
  /\ UNCHANGED <<now, calls>>

\* generateDocFromCode returns: setDocResult(markdown), then createChatSession
\* is called and awaited
DocSucceeded(k, text) ==
  /\ NoMicrotask
  /\ k \in 1..Len(cycles)
  /\ cycles[k].pc = "doc"
  /\ docResult' = ResponseText(text)
  /\ cycles' = [cycles EXCEPT ![k].pc = "chat", ![k].markdown = ResponseText(text)]
  /\ lastOp' = <<"docSucceeded", text>>
  /\ UNCHANGED <<code, fileList, appState, isReading, isKeyModalOpen, hasApiKey,
                 activeTab, chatSessionRef, storedKey, readers, cleared>>
  /\ RenderChat
  /\ UNCHANGED <<now, calls>>

\* error instanceof Error ? error.message : 'Unknown error occurred.'
ErrorMessage(error) == IF error.isError THEN error.message ELSE "Unknown error occurred."

\* setDocResult(`**System Error:** \n\n${...}`)
ErrorDoc(error) == "**System Error:** \n\n" \o ErrorMessage(error)

\* generateDocFromCode throws: the outer catch
DocFailed(k, error) ==
  /\ NoMicrotask
  /\ k \in 1..Len(cycles)
  /\ cycles[k].pc = "doc"
  /\ docResult' = ErrorDoc(error)
  /\ appState' = "ERROR"
  /\ cycles' = RemoveAt(cycles, k)
  /\ lastOp' = <<"docFailed", error>>
  /\ UNCHANGED <<code, fileList, isReading, isKeyModalOpen, hasApiKey,
                 activeTab, chatSessionRef, storedKey, readers, cleared>>
  /\ RenderChat
  /\ UNCHANGED <<now, calls>>

SessionDone_WorkspaceCode(k, ok) ==
  /\ k \in 1..Len(cycles)
  /\ cycles[k].pc = "chat"
  /\ chatSessionRef' =
       IF ok THEN Some(createChatSession(cycles[k].apiKey, code, cycles[k].markdown))
       ELSE chatSessionRef
  /\ appState' = "SUCCESS"
  /\ cycles' = RemoveAt(cycles, k)
  /\ lastOp' = <<"sessionDone", ok>>
  /\ UNCHANGED <<code, fileList, docResult, isReading, isKeyModalOpen, hasApiKey,
                 activeTab, storedKey, readers, cleared>>
  /\ RenderChat
  /\ UNCHANGED <<now, calls>>

\* createChatSession has returned (ok) or thrown (the inner catch); then
\* setAppState(AppState.SUCCESS)
SessionDone(k, ok) ==
  /\ k \in 1..Len(cycles)
  /\ cycles[k].pc = "chat"
  /\ chatSessionRef' =
       IF ok THEN Some(createChatSession(cycles[k].apiKey, cycles[k].code, cycles[k].markdown))
       ELSE chatSessionRef
  /\ appState' = "SUCCESS"
  /\ cycles' = RemoveAt(cycles, k)
  /\ lastOp' = <<"sessionDone", ok>>
  /\ UNCHANGED <<code, fileList, docResult, isReading, isKeyModalOpen, hasApiKey,
                 activeTab, storedKey, readers, cleared>>
  /\ RenderChat
  /\ UNCHANGED <<now, calls>>

-----------------------------------------------------------------------------
(* Workflow Controller: handleClearWorkspace                               *)

handleClearWorkspace_KeepSession(confirmed) ==
  /\ NoMicrotask
  /\ hasFiles
  /\ IF confirmed
     THEN /\ code' = ""
          /\ fileList' = <<>>
          /\ docResult' = ""
          /\ appState' = "IDLE"
          /\ activeTab' = "doc"
          /\ cleared' = TRUE
          /\ UNCHANGED chatSessionRef
     ELSE UNCHANGED <<code, fileList, docResult, appState, chatSessionRef, activeTab, cleared>>
  /\ lastOp' = <<"handleClearWorkspace", confirmed>>
  /\ UNCHANGED <<isReading, isKeyModalOpen, hasApiKey, storedKey, readers, cycles>>
  /\ RenderChat
  /\ UNCHANGED <<now, calls>>

\* a click on the Clear Workspace button of WorkbenchView; confirmed is the
\* answer of window.confirm
handleClearWorkspace(confirmed) ==
  /\ NoMicrotask
  /\ hasFiles
  /\ IF confirmed
     THEN /\ code' = ""
          /\ fileList' = <<>>
          /\ docResult' = ""
          /\ appState' = "IDLE"
          /\ chatSessionRef' = Null
          /\ activeTab' = "doc"
          /\ cleared' = TRUE
     ELSE UNCHANGED <<code, fileList, docResult, appState, chatSessionRef, activeTab, cleared>>
  /\ lastOp' = <<"handleClearWorkspace", confirmed>>
  /\ UNCHANGED <<isReading, isKeyModalOpen, hasApiKey, storedKey, readers, cycles>>
  /\ RenderChat
  /\ UNCHANGED <<now, calls>>

-----------------------------------------------------------------------------
(* Corpus Assembler: processFiles                                          *)

\* setFileList(validFiles); setCode(concatenatedCode); finally setIsReading(false)
\* (given here as the values that the three cells take)
Assembled_Append(validFiles, concatenatedCode) ==
  [fileList |-> fileList \o validFiles, code |-> code \o concatenatedCode,
   isReading |-> FALSE]

Assembled_ManifestOnly(validFiles, concatenatedCode) ==
  [fileList |-> validFiles, code |-> code, isReading |-> FALSE]

Assembled_Placeholder(validFiles, concatenatedCode) ==
  [fileList |-> validFiles,
   code |-> IF concatenatedCode = "" THEN "(no files)" ELSE concatenatedCode,
   isReading |-> FALSE]

Assembled(validFiles, concatenatedCode) ==
  [fileList |-> validFiles, code |-> concatenatedCode, isReading |-> FALSE]

\* LandingView: onClick={() => fileInputRef.current?.click()}, then onChange of
\* the file input: processFiles(e.target.files) up to its first await.  The
\* picker is offered by LandingView only, and the selection is made at once.
processFiles(files) ==
  /\ NoMicrotask
  /\ ~hasFiles
  /\ LET i == NextAccepted(files, 1) IN
       IF i > Len(files)
       THEN LET r == Assembled(<<>>, "") IN
            /\ fileList' = r.fileList
            /\ code' = r.code
            /\ isReading' = r.isReading
            /\ cleared' = FALSE
            /\ UNCHANGED readers
       ELSE /\ Len(readers) < MaxReaders
            /\ isReading' = TRUE
            /\ readers' = Append(readers, [files |-> files, i |-> i, validFiles |-> <<>>,
                                           concatenatedCode |-> "", warned |-> <<>>])
            /\ UNCHANGED <<code, fileList, cleared>>
  /\ lastOp' = <<"processFiles", files>>
  /\ UNCHANGED <<docResult, appState, isKeyModalOpen, hasApiKey, activeTab, chatSessionRef,
                 storedKey, cycles>>
  /\ RenderChat
  /\ UNCHANGED <<now, calls>>

PushItem_Unshift(validFiles, file) == <<Item(file)>> \o validFiles

\* validFiles.push({ path, size: file.size })
PushItem(validFiles, file) == Append(validFiles, Item(file))

AppendEntry_Overwrite(concatenatedCode, file) == Entry(PathOf(file), file.content)

AppendEntry_Prepend(concatenatedCode, file) ==
  Entry(PathOf(file), file.content) \o concatenatedCode

\* concatenatedCode += `--- START OF FILE ${path} ---\n${content}\n\n`
AppendEntry(concatenatedCode, file) == concatenatedCode \o Entry(PathOf(file), file.content)

\* console.warn(`Skipped ${path}`, err): the paths this invocation has logged
Warn(warned, file) == Append(warned, PathOf(file))

\* the file input's onChange: processFiles is called for a non-empty FileList
onChange(files) ==
  IF Len(files) > 0
  THEN processFiles(files)
  ELSE /\ NoMicrotask
       /\ ~hasFiles
       /\ lastOp' = <<"onChange", files>>
       /\ UNCHANGED <<code, fileList, docResult, appState, isReading, isKeyModalOpen,
                      hasApiKey, activeTab, chatSessionRef, storedKey, readers, cycles,
                      messages, input, isSending, sends, now, calls, cleared>>

ReadDone_Abort(k, ok) ==
  /\ NoMicrotask
  /\ k \in 1..Len(readers)
  /\ LET r == readers[k]
         file == r.files[r.i]
         validFiles == IF ok THEN PushItem(r.validFiles, file) ELSE r.validFiles
         concatenatedCode == IF ok THEN AppendEntry(r.concatenatedCode, file)
                             ELSE r.concatenatedCode
         warned == IF ok THEN r.warned ELSE Warn(r.warned, file)
         i == NextAccepted(r.files, r.i + 1)
     IN IF ~ok
        THEN /\ isReading' = FALSE
             /\ readers' = RemoveAt(readers, k)
             /\ UNCHANGED <<code, fileList, cleared>>
        ELSE IF i > Len(r.files)
        THEN LET a == Assembled(validFiles, concatenatedCode) IN
             /\ fileList' = a.fileList
             /\ code' = a.code
             /\ isReading' = a.isReading
             /\ cleared' = FALSE
             /\ readers' = RemoveAt(readers, k)
        ELSE /\ readers' = [readers EXCEPT ![k].i = i, ![k].validFiles = validFiles,
                                           ![k].concatenatedCode = concatenatedCode,
                                           ![k].warned = warned]
             /\ UNCHANGED <<code, fileList, isReading, cleared>>
  /\ lastOp' = <<"readDone", ok>>
  /\ UNCHANGED <<docResult, appState, isKeyModalOpen, hasApiKey, activeTab, chatSessionRef,
                 storedKey, cycles>>
  /\ RenderChat
  /\ UNCHANGED <<now, calls>>

ReadDone_ResetsWorkflow(k, ok) ==
  /\ NoMicrotask
  /\ k \in 1..Len(readers)
  /\ LET r == readers[k]
         file == r.files[r.i]
         validFiles == IF ok THEN PushItem(r.validFiles, file) ELSE r.validFiles
         concatenatedCode == IF ok THEN AppendEntry(r.concatenatedCode, file)
                             ELSE r.concatenatedCode
         warned == IF ok THEN r.warned ELSE Warn(r.warned, file)
         i == NextAccepted(r.files, r.i + 1)
     IN IF i > Len(r.files)
        THEN LET a == Assembled(validFiles, concatenatedCode) IN
             /\ fileList' = a.fileList
             /\ code' = a.code
             /\ isReading' = a.isReading
             /\ cleared' = FALSE
             /\ readers' = RemoveAt(readers, k)
             /\ appState' = "IDLE"
             /\ docResult' = ""
        ELSE /\ readers' = [readers EXCEPT ![k].i = i, ![k].validFiles = validFiles,
                                           ![k].concatenatedCode = concatenatedCode,
                                           ![k].warned = warned]
             /\ UNCHANGED <<code, fileList, isReading, cleared, appState, docResult>>
  /\ lastOp' = <<"readDone", ok>>
  /\ UNCHANGED <<isKeyModalOpen, hasApiKey, activeTab, chatSessionRef, storedKey, cycles>>
  /\ RenderChat
  /\ UNCHANGED <<now, calls>>

\* readFileContent settles (onload: ok, onerror: not ok); the loop goes on to
\* the next await or to the end of processFiles
ReadDone(k, ok) ==
  /\ NoMicrotask
  /\ k \in 1..Len(readers)
  /\ LET r == readers[k]
         file == r.files[r.i]
         validFiles == IF ok THEN PushItem(r.validFiles, file) ELSE r.validFiles
         concatenatedCode == IF ok THEN AppendEntry(r.concatenatedCode, file)
                             ELSE r.concatenatedCode
         warned == IF ok THEN r.warned ELSE Warn(r.warned, file)
         i == NextAccepted(r.files, r.i + 1)
     IN IF i > Len(r.files)
        THEN LET a == Assembled(validFiles, concatenatedCode) IN
             /\ fileList' = a.fileList
             /\ code' = a.code
             /\ isReading' = a.isReading
             /\ cleared' = FALSE
             /\ readers' = RemoveAt(readers, k)
        ELSE /\ readers' = [readers EXCEPT ![k].i = i, ![k].validFiles = validFiles,
                                           ![k].concatenatedCode = concatenatedCode,
                                           ![k].warned = warned]
             /\ UNCHANGED <<code, fileList, isReading, cleared>>
  /\ lastOp' = <<"readDone", ok>>
  /\ UNCHANGED <<docResult, appState, isKeyModalOpen, hasApiKey, activeTab, chatSessionRef,
                 storedKey, cycles>>
  /\ RenderChat
  /\ UNCHANGED <<now, calls>>

-----------------------------------------------------------------------------
(* Tabs and the credential modal                                           *)

\* <button onClick={() => setActiveTab('doc')}>
SetActiveTabDoc ==
  /\ NoMicrotask
  /\ hasFiles
  /\ activeTab' = "doc"
  /\ lastOp' = <<"setActiveTab", "doc">>
  /\ UNCHANGED <<code, fileList, docResult, appState, isReading, isKeyModalOpen, hasApiKey,
                 chatSessionRef, storedKey, readers, cycles, cleared>>
  /\ RenderChat
  /\ UNCHANGED <<now, calls>>

ChatTabDisabled_Never == FALSE

\* <button onClick={() => setActiveTab('chat')} disabled={appState !== AppState.SUCCESS}>
ChatTabDisabled == appState # "SUCCESS"

SetActiveTabChat ==
  /\ NoMicrotask
  /\ hasFiles
  /\ activeTab' = IF ChatTabDisabled THEN activeTab ELSE "chat"
  /\ lastOp' = <<"setActiveTab", "chat">>
  /\ UNCHANGED <<code, fileList, docResult, appState, isReading, isKeyModalOpen, hasApiKey,
                 chatSessionRef, storedKey, readers, cycles, cleared>>
  /\ RenderChat
  /\ UNCHANGED <<now, calls>>

\* Header: <button onClick={() => setIsKeyModalOpen(true)}>
OpenKeyModal ==
  /\ NoMicrotask
  /\ ~isKeyModalOpen
  /\ isKeyModalOpen' = TRUE
  /\ lastOp' = <<"setIsKeyModalOpen", TRUE>>
  /\ UNCHANGED <<code, fileList, docResult, appState, isReading, hasApiKey, activeTab,
                 chatSessionRef, storedKey, readers, cycles, cleared>>
  /\ RenderChat
  /\ UNCHANGED <<now, calls>>

\* ApiKeyModal: <button onClick={() => setIsKeyModalOpen(false)}>
CloseKeyModal ==
  /\ NoMicrotask
  /\ isKeyModalOpen
  /\ isKeyModalOpen' = FALSE
  /\ lastOp' = <<"setIsKeyModalOpen", FALSE>>
  /\ UNCHANGED <<code, fileList, docResult, appState, isReading, hasApiKey, activeTab,
                 chatSessionRef, storedKey, readers, cycles, cleared>>
  /\ RenderChat
  /\ UNCHANGED <<now, calls>>

\* ApiKeyModal: Save Configuration, with apiKeyInput as typed
handleSaveApiKey(apiKeyInput) ==
  /\ NoMicrotask
  /\ isKeyModalOpen
  /\ IF Trim(apiKeyInput) # ""
     THEN /\ storedKey' = Some(Trim(apiKeyInput))
          /\ hasApiKey' = TRUE
          /\ isKeyModalOpen' = FALSE
     ELSE UNCHANGED <<storedKey, hasApiKey, isKeyModalOpen>>
  /\ lastOp' = <<"handleSaveApiKey", apiKeyInput>>
  /\ UNCHANGED <<code, fileList, docResult, appState, isReading, activeTab,
                 chatSessionRef, readers, cycles, cleared>>
  /\ RenderChat
  /\ UNCHANGED <<now, calls>>

-----------------------------------------------------------------------------
(* The chat view: ChatInterface                                            *)

\* what the user can type: a question, or blanks
ChatInputs == {"hi", "  "}

\* what sendMessage can answer: result.text, possibly empty
ReplyTexts == {"ok", ""}

\* responseText || <fixed text> (a fixed text in Chinese, given by a short fixed text)
ReplyText(responseText) == IF responseText # "" THEN responseText ELSE "NO ANSWER"

\* the text of errorMsg (a fixed text in Chinese, given by a short fixed text)
ErrorNotice == "**ERROR**: SEND FAILED"

\* what App and the service do not see of a step of the chat view
ChatFrame ==
  UNCHANGED <<code, fileList, docResult, appState, isReading, isKeyModalOpen, hasApiKey,
              activeTab, chatSessionRef, storedKey, readers, cycles, calls, cleared>>

\* <textarea value={input} onChange={(e) => setInput(e.target.value)} />
SetInput(text) ==
  /\ NoMicrotask
  /\ ChatMounted
  /\ input' = text
  /\ lastOp' = <<"setInput", text>>
  /\ UNCHANGED <<messages, isSending, sends, now>>
  /\ ChatFrame

\* { id: Date.now().toString(), role: 'user', text: input, timestamp: Date.now() }
UserMsg == [id |-> ToString(now), role |-> "user", text |-> input, timestamp |-> now]

SendRefused_NoSendingCheck == Trim(input) = "" \/ chatSessionRef = Null

\* if (!input.trim() || !chatSession || isSending) return;
SendRefused == Trim(input) = "" \/ chatSessionRef = Null \/ isSending

\* handleSend up to `await chatSession.sendMessage(...)`: by the send button or
\* by the Enter key
handleSend ==
  /\ NoMicrotask
  /\ ChatMounted
  /\ IF SendRefused
     THEN UNCHANGED <<messages, input, isSending, sends>>
     ELSE /\ Len(sends) < MaxSends
          /\ Len(messages) < MaxMessages
          /\ messages' = Append(messages, UserMsg)
          /\ input' = ""
          /\ isSending' = TRUE
          /\ sends' = Append(sends, [text |-> input, live |-> TRUE, current |-> TRUE])
  /\ lastOp' = <<"handleSend", ~SendRefused>>
  /\ UNCHANGED now
  /\ ChatFrame

\* { id: (Date.now() + 1).toString(), role: 'model', text: ..., timestamp: Date.now() }
ModelMsg(text) == [id |-> ToString(now + 1), role |-> "model", text |-> text, timestamp |-> now]

\* the end of handleSend: setMessages(prev => [...prev, msg]) and, in the
\* finally, setIsSending(false); on an unmounted ChatInterface they do nothing
EndSend(k, msg) ==
  /\ IF sends[k].live
     THEN /\ messages' = Append(messages, msg)
          /\ isSending' = FALSE
     ELSE UNCHANGED <<messages, isSending>>
  /\ sends' = RemoveAt(sends, k)
  /\ UNCHANGED <<input, now>>
  /\ ChatFrame

\* sendMessage returns: the try block after the await
SendSucceeded(k, responseText) ==
  /\ NoMicrotask
  /\ k \in 1..Len(sends)
  /\ EndSend(k, ModelMsg(ReplyText(responseText)))
  /\ lastOp' = <<"sendSucceeded", [live |-> sends[k].live, current |-> sends[k].current,
                                   text |-> responseText]>>

\* sendMessage throws: the catch block
SendFailed(k) ==
  /\ NoMicrotask
  /\ k \in 1..Len(sends)
  /\ EndSend(k, ModelMsg(ErrorNotice))
  /\ lastOp' = <<"sendFailed", [live |-> sends[k].live, current |-> sends[k].current]>>

\* time passes
Tick ==
  /\ NoMicrotask
  /\ now < MaxClock
  /\ now' = now + 1
  /\ lastOp' = <<"tick", now + 1>>
  /\ UNCHANGED <<messages, input, isSending, sends>>
  /\ ChatFrame

-----------------------------------------------------------------------------
(* The Gemini service, its two functions called directly                   *)

\* the credentials a caller can pass: none, the empty string, a key
ServiceKeys == {Null, Some(""), Some("k1")}

\* the code a caller passes to generateDocFromCode
ServiceCodes == {"", "x"}

NoApiKey_OnlyAbsent(apiKey) == apiKey = Null

\* if (!apiKey) { throw new Error("API Key is required ...") }
NoApiKey(apiKey) == ~Truthy(apiKey)

\* new Error("API Key is required to generate documentation.")
DocKeyError == [isError |-> TRUE, message |-> "API Key is required to generate documentation."]

\* new Error("API Key is required to create chat session.")
ChatKeyError == [isError |-> TRUE, message |-> "API Key is required to create chat session."]

\* what the App and the chat view do not see of a step of the service
ServiceFrame ==
  UNCHANGED <<code, fileList, docResult, appState, isReading, isKeyModalOpen, hasApiKey,
              activeTab, chatSessionRef, storedKey, readers, cycles, messages, input,
              isSending, sends, now, cleared>>

\* generateDocFromCode(apiKey, code) up to `await ai.models.generateContent(...)`:
\* it throws without a key, else it issues the request and is suspended
CallGenerateDoc(apiKey, text) ==
  /\ IF NoApiKey(apiKey)
     THEN /\ lastOp' = <<"generateDocFromCode",
                         [apiKey |-> apiKey, upstream |-> <<"none">>,
                          outcome |-> <<"threw", DocKeyError>>, requests |-> 0]>>
          /\ UNCHANGED calls
     ELSE /\ Len(calls) < MaxCalls
          /\ calls' = Append(calls, [apiKey |-> apiKey, code |-> text, requests |-> 1])
          /\ lastOp' = <<"callGenerateDoc", apiKey>>
  /\ ServiceFrame

\* the request is answered: return response.text || "No response generated."
GenerateContentResponds(k, text) ==
  /\ k \in 1..Len(calls)
  /\ lastOp' = <<"generateDocFromCode",
                 [apiKey |-> calls[k].apiKey, upstream |-> <<"text", text>>,
                  outcome |-> <<"returned", ResponseText(text)>>,
                  requests |-> calls[k].requests]>>
  /\ calls' = RemoveAt(calls, k)
  /\ ServiceFrame

GenerateContentThrows_Retry(k, error) ==
  /\ k \in 1..Len(calls)
  /\ IF calls[k].requests < 2
     THEN /\ calls' = [calls EXCEPT ![k].requests = @ + 1]
          /\ lastOp' = <<"retry", k>>
     ELSE /\ lastOp' = <<"generateDocFromCode",
                         [apiKey |-> calls[k].apiKey, upstream |-> <<"threw", error>>,
                          outcome |-> <<"threw", error>>, requests |-> calls[k].requests]>>
          /\ calls' = RemoveAt(calls, k)
  /\ ServiceFrame

GenerateContentThrows_Placeholder(k, error) ==
  /\ k \in 1..Len(calls)
  /\ lastOp' = <<"generateDocFromCode",
                 [apiKey |-> calls[k].apiKey, upstream |-> <<"threw", error>>,
                  outcome |-> <<"returned", ResponseText("")>>,
                  requests |-> calls[k].requests]>>
  /\ calls' = RemoveAt(calls, k)
  /\ ServiceFrame

\* the request fails: the await throws, nothing catches, the value thrown by
\* the SDK is the value that generateDocFromCode throws
GenerateContentThrows(k, error) ==
  /\ k \in 1..Len(calls)
  /\ lastOp' = <<"generateDocFromCode",
                 [apiKey |-> calls[k].apiKey, upstream |-> <<"threw", error>>,
                  outcome |-> <<"threw", error>>, requests |-> calls[k].requests]>>
  /\ calls' = RemoveAt(calls, k)
  /\ ServiceFrame

\* createChatSession(apiKey, fileContext, generatedDoc): it throws without a
\* key, else ai.chats.create(...) makes the session, or throws (upstream)
CallCreateChatSession(apiKey, fileContext, generatedDoc, upstream) ==
  /\ lastOp' = <<"createChatSession",
                 [apiKey |-> apiKey,
                  upstream |-> IF NoApiKey(apiKey) THEN <<"none">> ELSE upstream,
                  outcome |->
                    IF NoApiKey(apiKey) THEN <<"threw", ChatKeyError>>
                    ELSE IF upstream[1] = "threw" THEN upstream
                    ELSE <<"returned", createChatSession(Val(apiKey), fileContext, generatedDoc)>>,
                  requests |-> 0]>>
  /\ UNCHANGED calls
  /\ ServiceFrame

-----------------------------------------------------------------------------
(* The program: user events and completions of awaited calls, interleaved  *)

Next ==
  \/ ClickGenerate
  \/ \E k \in 1..MaxCycles, text \in DocTexts : DocSucceeded(k, text)
  \/ \E k \in 1..MaxCycles, error \in Thrown : DocFailed(k, error)
  \/ \E k \in 1..MaxCycles, ok \in BOOLEAN : SessionDone(k, ok)
  \/ \E confirmed \in BOOLEAN : handleClearWorkspace(confirmed)
  \/ \E files \in WorkflowSelections : processFiles(files)
  \/ \E k \in 1..MaxReaders, ok \in BOOLEAN : ReadDone(k, ok)
  \/ SetActiveTabDoc
  \/ SetActiveTabChat
  \/ OpenKeyModal
  \/ CloseKeyModal
  \/ \E apiKeyInput \in KeyInputs : handleSaveApiKey(apiKeyInput)

Spec == Init /\ [][Next]_vars

(* The controller with handleGenerate as a programmatic entry point: the    *)
(* program above, and handleGenerate called in any state                    *)
NextCall ==
  \/ Next
  \/ CallGenerate

SpecCall == Init /\ [][NextCall]_vars

(* The program with remote calls that end: the call that the k-th suspended
   handleGenerate awaits eventually returns or raises *)
CallEnds(k) ==
  \/ \E text \in DocTexts : DocSucceeded(k, text)
  \/ \E error \in Thrown : DocFailed(k, error)
  \/ \E ok \in BOOLEAN : SessionDone(k, ok)

SpecFair == Spec /\ \A k \in 1..MaxCycles : WF_vars(CallEnds(k))

(* The Corpus Assembler alone, on selections of several files. The selections
   are made one after the other: an invocation of processFiles builds its
   manifest and its corpus in locals, which no other invocation touches.     *)
NextAssemble ==
  \/ \E files \in AssembleSelections \cup {<<>>} : readers = <<>> /\ onChange(files)
  \/ \E k \in 1..MaxReaders, ok \in BOOLEAN : ReadDone(k, ok)
  \/ \E confirmed \in BOOLEAN : handleClearWorkspace(confirmed)

SpecAssemble == Init /\ [][NextAssemble]_vars

(* The Corpus Assembler on selections that exercise its two filters *)
NextFilter ==
  \/ \E files \in FilterSelections : readers = <<>> /\ onChange(files)
  \/ \E k \in 1..MaxReaders, ok \in BOOLEAN : ReadDone(k, ok)
  \/ \E confirmed \in BOOLEAN : handleClearWorkspace(confirmed)

SpecFilter == Init /\ [][NextFilter]_vars

(* The Corpus Assembler invoked again while an earlier invocation is still
   reading: the later one ends over the workspace that the earlier one filled *)
NextRerun ==
  \/ \E files \in RerunSelections : onChange(files)
  \/ \E k \in 1..MaxReaders, ok \in BOOLEAN : ReadDone(k, ok)
  \/ \E confirmed \in BOOLEAN : handleClearWorkspace(confirmed)

SpecRerun == Init /\ [][NextRerun]_vars

(* The Gemini service called directly, with and without a credential *)
NextService ==
  \/ \E apiKey \in ServiceKeys, text \in ServiceCodes : CallGenerateDoc(apiKey, text)
  \/ \E k \in 1..MaxCalls, text \in DocTexts : GenerateContentResponds(k, text)
  \/ \E k \in 1..MaxCalls, error \in Thrown : GenerateContentThrows(k, error)
  \/ \E apiKey \in ServiceKeys, upstream \in {<<"ok">>} \cup {<<"threw", e>> : e \in Thrown} :
       \E fileContext \in ServiceCodes :
         CallCreateChatSession(apiKey, fileContext, "# Doc", upstream)

SpecService == Init /\ [][NextService]_vars

(* The chat view in the program: one selection at a time, generation cycles,
   the two tabs, clearing the workspace, and the user typing and sending
   messages                                                                   *)
NextChat ==
  \/ ClickGenerate
  \/ \E k \in 1..MaxCycles : DocSucceeded(k, "# Doc")
  \/ \E k \in 1..MaxCycles, ok \in BOOLEAN : SessionDone(k, ok)
  \/ handleClearWorkspace(TRUE)
  \/ readers = <<>> /\ processFiles(<<FileA>>)
  \/ \E k \in 1..MaxReaders : ReadDone(k, TRUE)
  \/ SetActiveTabDoc
  \/ SetActiveTabChat
  \/ \E text \in ChatInputs : SetInput(text)
  \/ handleSend
  \/ \E k \in 1..MaxSends, responseText \in ReplyTexts : SendSucceeded(k, responseText)
  \/ \E k \in 1..MaxSends : SendFailed(k)
  \/ Tick

SpecChat == Init /\ [][NextChat]_vars

-----------------------------------------------------------------------------
(* Remote calls that are outstanding                                       *)

DocCalls == Cardinality({k \in 1..Len(cycles) : cycles[k].pc = "doc"})

SessionCalls == Cardinality({k \in 1..Len(cycles) : cycles[k].pc = "chat"})

\* the step runs handleGenerate: called directly, or by a click on the enabled button
GenerateInvoked ==
  \/ lastOp'[1] = "handleGenerate"
  \/ lastOp'[1] = "clickGenerate" /\ appState # "GENERATING"

-----------------------------------------------------------------------------
(* Claims                                                                  *)

\* C1: a click on Generate while the workflow is GENERATING is a no-op: no
\* document-generation call is issued, and document, session handle and
\* WorkflowState keep their values.
C1_StartWhileGeneratingIsNoOp ==
  [][(lastOp'[1] = "clickGenerate" /\ appState = "GENERATING")
       => UNCHANGED <<appState, docResult, chatSessionRef, cycles>>]_vars

\* C1 witness: Generate was clicked while GENERATING; the one
\* document-generation call of the running cycle is still the only one.
C1_Witness ==
  /\ lastOp = <<"clickGenerate", "GENERATING">>
  /\ appState = "GENERATING"
  /\ docResult = ""
  /\ DocCalls = 1

\* C2 as claimed: at most one document-generation call and at most one
\* session-creation call are outstanding, and never both, in every reachable state.
C2_SingleCallOutstanding ==
  /\ DocCalls <= 1
  /\ SessionCalls <= 1
  /\ ~(DocCalls >= 1 /\ SessionCalls >= 1)

\* C2 amended: while the workflow is GENERATING no step issues a new
\* document-generation call, and a session-creation call is issued only by the
\* return of a document-generation call, which it replaces.
C2_NoStartWhileGenerating ==
  [][/\ appState = "GENERATING" => (Len(cycles') <= Len(cycles) /\ DocCalls' <= DocCalls)
     /\ SessionCalls' > SessionCalls
          => (SessionCalls' = SessionCalls + 1 /\ DocCalls' = DocCalls - 1)]_vars

\* C2 witness: the session-creation call of the running cycle is outstanding,
\* chained after its document-generation call returned; no other call is.
C2_Witness ==
  /\ appState = "GENERATING"
  /\ lastOp[1] = "docSucceeded"
  /\ SessionCalls = 1
  /\ DocCalls = 0

\* C3: clear workspace can be taken in every workflow state and sets, in one
\* step, WorkflowState to IDLE with corpus, manifest and document empty and
\* the session handle null.
C3_ClearIsAtomicReset ==
  [][/\ (hasFiles /\ NoMicrotask) => ENABLED handleClearWorkspace(TRUE)
     /\ lastOp' = <<"handleClearWorkspace", TRUE>>
          => /\ appState' = "IDLE"
             /\ code' = ""
             /\ fileList' = <<>>
             /\ docResult' = ""
             /\ chatSessionRef' = Null]_vars

\* C3 witness: the workspace was cleared while a generation cycle was in flight.
C3_Witness ==
  /\ lastOp = <<"handleClearWorkspace", TRUE>>
  /\ appState = "IDLE"
  /\ code = ""
  /\ chatSessionRef = Null
  /\ Len(cycles) > 0

\* C4 as claimed: after a clear and until a file selection completes, corpus,
\* manifest, document and session handle are all empty.
C4_ClearedStaysCleared ==
  cleared => (code = "" /\ fileList = <<>> /\ docResult = "" /\ chatSessionRef = Null)

C6_DocFailureGoesToError ==
  [][(lastOp'[1] = "docFailed" /\ lastOp'[2].isError)
       => /\ appState = "GENERATING"
          /\ appState' = "ERROR"
          /\ Includes(docResult', lastOp'[2].message)
          /\ chatSessionRef' = Null
          /\ SessionCalls' = SessionCalls]_vars

\* C7 as claimed: when session creation fails after the document was generated,
\* the workflow goes from GENERATING to SUCCESS, the document is the generated
\* text of that cycle and the session handle is null.
C7_SessionFailureStillSucceeds ==
  [][lastOp' = <<"sessionDone", FALSE>>
       => /\ appState = "GENERATING"
          /\ appState' = "SUCCESS"
          /\ chatSessionRef' = Null
          /\ \E k \in 1..Len(cycles) :
               /\ cycles[k].pc = "chat"
               /\ cycles' = RemoveAt(cycles, k)
               /\ docResult' = cycles[k].markdown]_vars

\* C8: every step into GENERATING leaves the document empty and the session
\* handle null, and issues the document-generation call of the new cycle.
C8_StartClearsDocumentAndSession ==
  [][(appState # "GENERATING" /\ appState' = "GENERATING")
       => /\ docResult' = ""
          /\ chatSessionRef' = Null
          /\ Len(cycles') = Len(cycles) + 1
          /\ cycles'[Len(cycles')].pc = "doc"]_vars

\* C8 witness: a start from SUCCESS, where a document was shown: the workflow
\* is GENERATING with the document empty and the session handle null.
C8_Witness ==
  /\ lastOp = <<"clickGenerate", "SUCCESS">>
  /\ appState = "GENERATING"
  /\ docResult = ""
  /\ chatSessionRef = Null
  /\ DocCalls >= 1

\* C9 as claimed: handleGenerate with an empty corpus and a credential issues
\* one document-generation call, which carries the empty corpus.
C9_EmptyCorpusIsPassedThrough ==
  [][(lastOp'[1] = "handleGenerate" /\ code = "" /\ fileList = <<>> /\ storedKey # Null
        /\ Len(cycles) < MaxCycles)
       => /\ Len(cycles') = Len(cycles) + 1
          /\ cycles'[Len(cycles')] = NewCycle(Val(storedKey), "")]_vars

\* C9 amended: handleGenerate with an empty corpus and a credential returns at
\* its guard: no call is issued and the workflow is unchanged.
C9_EmptyCorpusIsShortCircuited ==
  [][(lastOp'[1] = "handleGenerate" /\ code = "" /\ fileList = <<>> /\ storedKey # Null)
       => UNCHANGED <<appState, docResult, chatSessionRef, cycles, isKeyModalOpen>>]_vars

\* C9 witness: handleGenerate was called with an empty corpus and a credential
\* in the initial workspace; nothing is outstanding.
C9_Witness ==
  /\ lastOp = <<"handleGenerate", "IDLE">>
  /\ code = ""
  /\ fileList = <<>>
  /\ storedKey # Null
  /\ cycles = <<>>
  /\ appState = "IDLE"

-----------------------------------------------------------------------------
(* Reading a corpus text back: its header lines                            *)

HeaderPrefix == "--- START OF FILE "
HeaderSuffix == " ---"

\* the lines of a text: what the newlines end, and what follows the last
\* newline if the text does not end with one
Lines(text) ==
  LET newlines == {i \in 1..Len(text) : CharAt(text, i) = "\n"}
      starts == {i \in 1..Len(text) : i = 1 \/ (i - 1) \in newlines}
      LineAt(start) ==
        IF \E i \in newlines : i >= start
        THEN SubSeq(text, start,
                    (CHOOSE i \in newlines :
                       i >= start /\ \A j \in newlines : j >= start => i <= j) - 1)
        ELSE SubSeq(text, start, Len(text))
  IN [n \in 1..Cardinality(starts) |->
        LineAt(CHOOSE start \in starts : Cardinality({x \in starts : x < start}) = n - 1)]

IsHeaderLine(line) ==
  /\ Len(line) >= Len(HeaderPrefix) + Len(HeaderSuffix)
  /\ StartsWith(line, HeaderPrefix)
  /\ EndsWith(line, HeaderSuffix)

HeaderPath(line) == SubSeq(line, Len(HeaderPrefix) + 1, Len(line) - Len(HeaderSuffix))

RECURSIVE HeaderPathsOf(_)
HeaderPathsOf(lines) ==
  IF lines = <<>> THEN <<>>
  ELSE (IF IsHeaderLine(Head(lines)) THEN <<HeaderPath(Head(lines))>> ELSE <<>>)
       \o HeaderPathsOf(Tail(lines))

\* the paths of the header lines of a corpus text, in order
HeaderPaths(text) == HeaderPathsOf(Lines(text))

Paths(items) == [i \in 1..Len(items) |-> items[i].path]

RECURSIVE IsSubsequence(_, _)
\* s is t with some elements left out
IsSubsequence(s, t) ==
  IF s = <<>> THEN TRUE
  ELSE IF t = <<>> THEN FALSE
  ELSE IF Head(s) = Head(t) THEN IsSubsequence(Tail(s), Tail(t))
  ELSE IsSubsequence(s, Tail(t))

\* the step ends the processFiles invocation k: its last read settled
Completes(k) ==
  /\ lastOp'[1] = "readDone"
  /\ k \in 1..Len(readers)
  /\ readers' = RemoveAt(readers, k)

\* no file of the selection that passes the filters holds a header line
NoHeaderInContents(files) ==
  \A i \in 1..Len(files) :
    Accepted(files[i]) => HeaderPaths(files[i].content) = <<>>

\* C10 as claimed: when processFiles ends, the manifest paths are the header
\* paths of the corpus text, in the same order, and are the selection's paths
\* with the items that were not accepted left out.
C10_OrderPreserved ==
  [][\A k \in 1..MaxReaders :
       Completes(k)
         => /\ Paths(fileList') = HeaderPaths(code')
            /\ IsSubsequence(Paths(fileList'), [i \in 1..Len(readers[k].files) |->
                                                  PathOf(readers[k].files[i])])]_vars

\* C10 amended: the same, for selections whose accepted files hold no header
\* line in their content.
C10_OrderPreservedWithoutHeaderContent ==
  [][\A k \in 1..MaxReaders :
       (Completes(k) /\ NoHeaderInContents(readers[k].files))
         => /\ Paths(fileList') = HeaderPaths(code')
            /\ IsSubsequence(Paths(fileList'), [i \in 1..Len(readers[k].files) |->
                                                  PathOf(readers[k].files[i])])]_vars

\* C10 witness: src/a.ts was selected before README.md and both were read: the
\* manifest and the corpus keep that order, which is not the lexical one.
C10_Witness ==
  /\ lastOp = <<"readDone", TRUE>>
  /\ Paths(fileList) = <<"src/a.ts", "README.md">>
  /\ HeaderPaths(code) = <<"src/a.ts", "README.md">>

-----------------------------------------------------------------------------
(* The end of an invocation of processFiles, and what it was invoked on    *)

\* the step ends an invocation of processFiles: at once when no file passes
\* the filters, else when its last read settles
EndsRun ==
  \/ lastOp'[1] = "processFiles" /\ readers' = readers
  \/ \E k \in 1..Len(readers) : Completes(k)

EndingReader == readers[CHOOSE k \in 1..Len(readers) : readers' = RemoveAt(readers, k)]

\* the selection of the invocation that ends
RunFiles == IF lastOp'[1] = "processFiles" THEN lastOp'[2] ELSE EndingReader.files

\* the paths it has logged as skipped, the last read included
RunWarned ==
  IF lastOp'[1] = "processFiles" THEN <<>>
  ELSE IF lastOp'[2] THEN EndingReader.warned
  ELSE Append(EndingReader.warned, PathOf(EndingReader.files[EndingReader.i]))

\* the content of the file of a selection that has the path
ContentOf(files, path) == files[CHOOSE i \in 1..Len(files) : PathOf(files[i]) = path].content

\* the contents of the manifest's files, in the manifest's order
ManifestContents(files, items) ==
  [i \in 1..Len(items) |-> ContentOf(files, items[i].path)]

-----------------------------------------------------------------------------
(* Splitting a corpus text at its header lines                             *)

RECURSIVE SplitLines(_, _)
\* the text that follows each header line, up to the next header line
SplitLines(lines, chunks) ==
  IF lines = <<>> THEN chunks
  ELSE IF IsHeaderLine(Head(lines)) THEN SplitLines(Tail(lines), Append(chunks, ""))
  ELSE IF chunks = <<>> THEN SplitLines(Tail(lines), chunks)
  ELSE SplitLines(Tail(lines),
                  [chunks EXCEPT ![Len(chunks)] = @ \o Head(lines) \o "\n"])

\* a chunk without the blank-line separator that ends an entry
StripSeparator(chunk) ==
  IF EndsWith(chunk, "\n\n") THEN SubSeq(chunk, 1, Len(chunk) - 2) ELSE chunk

\* the contents recovered from a corpus text
SplitContents(text) ==
  LET chunks == SplitLines(Lines(text), <<>>)
  IN [i \in 1..Len(chunks) |-> StripSeparator(chunks[i])]

\* C11 as claimed: for any contents, splitting the corpus text of an ended
\* processFiles at its header lines gives back the contents of the manifest's
\* files, one for one and in order.
C11_RoundTrip ==
  [][EndsRun => SplitContents(code') = ManifestContents(RunFiles, fileList')]_vars

\* C11 amended: the round trip holds when no accepted file's content holds a
\* header line.
C11_RoundTripWithoutHeaderContent ==
  [][(EndsRun /\ NoHeaderInContents(RunFiles))
       => SplitContents(code') = ManifestContents(RunFiles, fileList')]_vars

\* C11 witness: docs/m.md (three lines, one blank, newline at the end) and
\* src/a.ts were read, and the split of the corpus gives both contents back.
C11_Witness ==
  /\ lastOp = <<"readDone", TRUE>>
  /\ Paths(fileList) = <<"docs/m.md", "src/a.ts">>
  /\ SplitContents(code) = <<"a\n\nb\n", "x">>

\* C12 as claimed: after every processFiles, the manifest has as many items as
\* the corpus text has header lines, and the i-th manifest path is the path of
\* the i-th header line.
C12_ManifestMatchesHeaders ==
  [][EndsRun
       => /\ Len(fileList') = Len(HeaderPaths(code'))
          /\ \A i \in 1..Len(fileList') : fileList'[i].path = HeaderPaths(code')[i]]_vars

\* C12 amended: the same, for a corpus assembled from files whose contents
\* hold no header line.
C12_ManifestMatchesHeadersWithoutHeaderContent ==
  [][(EndsRun /\ NoHeaderInContents(RunFiles))
       => /\ Len(fileList') = Len(HeaderPaths(code'))
          /\ \A i \in 1..Len(fileList') : fileList'[i].path = HeaderPaths(code')[i]]_vars

\* C12 witness: README.md then docs/m.md were read: a manifest of two items
\* and a corpus text of two header lines.
C12_Witness ==
  /\ lastOp = <<"readDone", TRUE>>
  /\ Len(fileList) = 2
  /\ Len(HeaderPaths(code)) = 2
  /\ fileList[1].path = "README.md"
  /\ HeaderPaths(code)[2] = "docs/m.md"

-----------------------------------------------------------------------------
(* The two filtering rules, as stated                                      *)

Range(s) == {s[i] : i \in 1..Len(s)}

RECURSIVE SegmentsFrom(_, _, _)
\* the segments of a path: what "/" separates
SegmentsFrom(path, start, i) ==
  IF i > Len(path) THEN <<SubSeq(path, start, Len(path))>>
  ELSE IF CharAt(path, i) = "/"
  THEN <<SubSeq(path, start, i - 1)>> \o SegmentsFrom(path, i + 1, i + 1)
  ELSE SegmentsFrom(path, start, i + 1)

Segments(path) == SegmentsFrom(path, 1, 1)

\* an ignored-directory name is a complete segment of the path
HasIgnoredSegment(path) == Range(Segments(path)) \cap Range(IGNORED_DIRS) # {}

\* the lower-cased path ends with an allowed extension
HasAllowedExtension(path) ==
  LET lower == ToLowerCase(path)
  IN \E ext \in Range(ALLOWED_EXTENSIONS) :
       /\ Len(lower) >= Len(ext)
       /\ SubSeq(lower, Len(lower) - Len(ext) + 1, Len(lower)) = ext

\* at the end of a processFiles, the path is in neither the manifest nor the
\* corpus text, and its file was not read either
DroppedByFilter(path) ==
  /\ path \notin Range(Paths(fileList'))
  /\ path \notin Range(HeaderPaths(code'))
  /\ path \notin Range(RunWarned)

\* C13: of the selected files with an allowed extension, those dropped (absent
\* from the manifest and from the corpus, never read) are exactly those with an
\* ignored-directory name as a complete path segment.
C13_DirectoryExclusion ==
  [][EndsRun
       => \A i \in 1..Len(RunFiles) :
            LET path == PathOf(RunFiles[i])
            IN HasAllowedExtension(path)
                 => (DroppedByFilter(path) <=> HasIgnoredSegment(path))]_vars

\* C13 witness: pkg/.git/c.json was passed over and my_node_modules/a.ts, where
\* the ignored name is part of a longer segment, is being read.
C13_Witness ==
  /\ Len(readers) = 1
  /\ readers[1].files = <<FileG, FileN>>
  /\ readers[1].i = 2

\* C14: of the selected files with no ignored-directory segment, those kept
\* (read, and in the manifest and the corpus unless the read failed) are
\* exactly those whose lower-cased path ends with an allowed extension; the
\* others are in neither the manifest nor the corpus.
C14_ExtensionAllowList ==
  [][EndsRun
       => \A i \in 1..Len(RunFiles) :
            LET path == PathOf(RunFiles[i])
            IN ~HasIgnoredSegment(path)
                 => (~DroppedByFilter(path) <=> HasAllowedExtension(path))]_vars

\* C14 witness: a.exe was passed over and A.TS, whose extension is allowed
\* once lower-cased, is being read.
C14_Witness ==
  /\ Len(readers) = 1
  /\ readers[1].files = <<FileE, FileT>>
  /\ readers[1].i = 2
  /\ readers[1].validFiles = <<>>

-----------------------------------------------------------------------------
(* Read failures                                                           *)

\* the paths of a selection that pass both rules and were not logged as
\* skipped, in the selection's order
RECURSIVE KeptPaths(_, _)
KeptPaths(files, warned) ==
  IF files = <<>> THEN <<>>
  ELSE LET path == PathOf(Head(files))
       IN (IF /\ ~HasIgnoredSegment(path)
              /\ HasAllowedExtension(path)
              /\ path \notin Range(warned)
           THEN <<path>> ELSE <<>>)
          \o KeptPaths(Tail(files), warned)

\* C15: a failed read changes nothing but the log: the invocation goes on to
\* its next read or ends; at its end the manifest is the selection's accepted
\* paths, in order, without those whose read failed, no header of the corpus
\* names a failed path, and the reading flag is lowered.
C15_ReadFailureIsSwallowed ==
  [][/\ lastOp' = <<"readDone", FALSE>>
          => /\ UNCHANGED <<appState, docResult, chatSessionRef>>
             /\ EndsRun \/ Len(readers') = Len(readers)
     /\ EndsRun
          => /\ Paths(fileList') = KeptPaths(RunFiles, RunWarned)
             /\ Range(RunWarned) \cap Range(HeaderPaths(code')) = {}
             /\ Range(RunWarned) \cap Range(Paths(fileList')) = {}
             /\ isReading' = FALSE]_vars

\* C15 witness: of src/a.ts, README.md and docs/m.md, the read of README.md
\* failed: src/a.ts is kept and docs/m.md is being read.
C15_Witness ==
  /\ Len(readers) = 1
  /\ readers[1].files = <<FileA, FileR, FileM>>
  /\ readers[1].warned = <<"README.md">>
  /\ Paths(readers[1].validFiles) = <<"src/a.ts">>
  /\ readers[1].i = 3

-----------------------------------------------------------------------------
(* The corpus text, as specified                                           *)

RECURSIVE CorpusOf(_, _)
\* for each path in order: the header line, a newline, the raw content of the
\* path's file, two newlines
CorpusOf(paths, files) ==
  IF paths = <<>> THEN ""
  ELSE "--- START OF FILE " \o Head(paths) \o " ---" \o "\n"
       \o ContentOf(files, Head(paths)) \o "\n" \o "\n"
       \o CorpusOf(Tail(paths), files)

\* C16: at the end of every processFiles the corpus text is exactly the
\* concatenation, over the manifest's items in order, of header line, newline,
\* raw content and two newlines, with nothing else in it.
C16_CorpusFormat ==
  [][EndsRun => code' = CorpusOf(Paths(fileList'), RunFiles)]_vars

\* C16 witness: s.md and src/a.ts were read; the content of s.md, itself of
\* the header form, is in the corpus text as it is.
C16_Witness ==
  /\ lastOp = <<"readDone", TRUE>>
  /\ Paths(fileList) = <<"s.md", "src/a.ts">>
  /\ code = "--- START OF FILE s.md ---\n--- START OF FILE q ---\n\n\n"
              \o "--- START OF FILE src/a.ts ---\nx\n\n"

\* C17: when a selection is empty, or none of its files passes the filters, or
\* every read fails, the manifest and the corpus text are empty afterwards and
\* no error is raised: the workflow state and the document are unchanged and
\* the reading flag is lowered.
C17_NothingAcceptedGivesEmptyCorpus ==
  [][/\ lastOp' = <<"onChange", <<>>>>
          => /\ fileList' = <<>> /\ code' = ""
             /\ UNCHANGED <<appState, docResult, isReading>>
     /\ (EndsRun /\ KeptPaths(RunFiles, RunWarned) = <<>>)
          => /\ fileList' = <<>> /\ code' = ""
             /\ ~isReading'
             /\ UNCHANGED <<appState, docResult>>]_vars

\* C17 witness: the last read of a selection has failed as the others did, and
\* the workspace is empty, idle and not reading.
C17_Witness ==
  /\ lastOp = <<"readDone", FALSE>>
  /\ readers = <<>>
  /\ fileList = <<>>
  /\ code = ""
  /\ ~isReading
  /\ appState = "IDLE"

-----------------------------------------------------------------------------
(* Assembly as a function of the selection and the read outcomes           *)

\* what processFiles yields on a selection whose failed reads are `warned`
AssemblyOf(files, warned) ==
  LET paths == KeptPaths(files, warned)
  IN [manifest |-> [i \in 1..Len(paths) |->
                      [path |-> paths[i],
                       size |-> files[CHOOSE j \in 1..Len(files) :
                                        PathOf(files[j]) = paths[i]].size]],
      text |-> CorpusOf(paths, files)]

\* C18: the manifest and the corpus text at the end of a processFiles are a
\* function of its selection and of its read outcomes alone, whatever manifest
\* and corpus the workspace held: two invocations on the same selection with
\* the same outcomes yield the same manifest and the same text.
C18_AssemblyIsDeterministic ==
  [][EndsRun
       => /\ fileList' = AssemblyOf(RunFiles, RunWarned).manifest
          /\ code' = AssemblyOf(RunFiles, RunWarned).text]_vars

\* C18 witness: the selection src/a.ts, README.md was processed and fills the
\* workspace, and a second invocation on the same selection, with the same
\* outcome so far, is at its last read.
C18_Witness ==
  /\ Paths(fileList) = <<"src/a.ts", "README.md">>
  /\ code = CorpusOf(<<"src/a.ts", "README.md">>, <<FileA, FileR>>)
  /\ Len(readers) = 1
  /\ readers[1].files = <<FileA, FileR>>
  /\ readers[1].i = 2
  /\ Paths(readers[1].validFiles) = <<"src/a.ts">>

-----------------------------------------------------------------------------
(* The two remote calls of one generation cycle                            *)

\* the corpus text and the document a session was seeded with
SeededCorpus(session) == session.history[1].parts[2]
SeededDocument(session) == session.history[1].parts[4]

\* C19: a cycle's session-creation call is issued only in the step in which
\* its document-generation call returns a text, with the corpus text that was
\* sent to the document generator and the document that was returned; the
\* session that the call creates is seeded with these two, whatever the
\* workspace corpus is by then.
C19_SessionCallFollowsDocumentCall ==
  [][/\ \A k \in 1..Len(cycles') :
          cycles'[k].pc = "chat"
            => /\ lastOp'[1] = "docSucceeded"
               /\ k <= Len(cycles)
               /\ cycles[k].pc = "doc"
               /\ cycles'[k].code = cycles[k].code
               /\ cycles'[k].markdown = ResponseText(lastOp'[2])
     /\ lastOp' = <<"sessionDone", TRUE>>
          => \E k \in 1..Len(cycles) :
               /\ cycles[k].pc = "chat"
               /\ cycles' = RemoveAt(cycles, k)
               /\ chatSessionRef' # Null
               /\ SeededCorpus(Val(chatSessionRef')) = cycles[k].code
               /\ SeededDocument(Val(chatSessionRef')) = cycles[k].markdown]_vars

\* C19 witness: the workspace was cleared while the document call was in
\* flight; the session is seeded with the corpus that was sent and with the
\* document that came back.
C19_Witness ==
  /\ lastOp = <<"sessionDone", TRUE>>
  /\ code = ""
  /\ chatSessionRef # Null
  /\ SeededCorpus(Val(chatSessionRef)) = "--- START OF FILE src/a.ts ---\nx\n\n"
  /\ SeededDocument(Val(chatSessionRef)) = "# Doc"

-----------------------------------------------------------------------------
(* The seeded session                                                      *)

\* ChatInterface is mounted with a session (part_000:386-392) and handleSend
\* does not return at `!chatSession` (part_001:98): a message can be sent
CanSend == hasFiles /\ activeTab = "chat" /\ chatSessionRef # Null

\* the position of a text among the parts of a turn, 0 if it is not there
PartIndex(parts, text) ==
  IF \E i \in 1..Len(parts) : parts[i] = text
  THEN CHOOSE i \in 1..Len(parts) : parts[i] = text
  ELSE 0

\* a history of exactly two turns: a user turn that holds the corpus text and
\* then the document among framing texts, and a model turn that holds the
\* acknowledgment only
IsSeededWith(session, corpus, document) ==
  /\ Len(session.history) = 2
  /\ session.history[1].role = "user"
  /\ PartIndex(session.history[1].parts, corpus) > 0
  /\ \E i, j \in 1..Len(session.history[1].parts) :
       /\ i < j
       /\ session.history[1].parts[i] = corpus
       /\ session.history[1].parts[j] = document
  /\ Len(session.history[1].parts) > 2
  /\ session.history[2] = [role |-> "model", parts |-> <<"ACK">>]

\* C20: the session that createChatSession(corpus, document) returns has a
\* history of exactly two turns, the user turn with the corpus and the
\* document in framing text and then the model turn with the acknowledgment;
\* and in every state in which a message can be sent on a session, that
\* session has this seeded history.
C20_SessionIsSeeded ==
  [][/\ lastOp' = <<"sessionDone", TRUE>>
          => \E k \in 1..Len(cycles) :
               /\ cycles[k].pc = "chat"
               /\ chatSessionRef' # Null
               /\ IsSeededWith(Val(chatSessionRef'), cycles[k].code, cycles[k].markdown)
     /\ CanSend'
          => IsSeededWith(Val(chatSessionRef'), SeededCorpus(Val(chatSessionRef')),
                          SeededDocument(Val(chatSessionRef')))]_vars

\* C20 witness: the chat view is open on a session whose history is the user
\* turn and the model turn of the seeding.
C20_Witness ==
  /\ CanSend
  /\ appState = "SUCCESS"
  /\ Len(Val(chatSessionRef).history) = 2
  /\ Val(chatSessionRef).history[1].role = "user"
  /\ Val(chatSessionRef).history[2].role = "model"

-----------------------------------------------------------------------------
(* The outcomes of the service functions                                   *)

\* the last step ended an invocation of generateDocFromCode
DocCallEnded == lastOp[1] = "generateDocFromCode"

\* the last step ended an invocation of createChatSession
ChatCallEnded == lastOp[1] = "createChatSession"

\* a credential that is absent or empty
AbsentOrEmpty(apiKey) == apiKey = Null \/ apiKey = Some("")

\* C21 (as stated): generateDocFromCode fails, with the upstream error's
\* message, when the remote call raises and also when the remote call returns
\* no usable text.
C21_FailsOnRaiseOrNoUsableText ==
  DocCallEnded =>
    /\ lastOp[2].upstream[1] = "threw"
         => /\ lastOp[2].outcome[1] = "threw"
            /\ lastOp[2].outcome[2].message = lastOp[2].upstream[2].message
    /\ lastOp[2].upstream = <<"text", "">> => lastOp[2].outcome[1] = "threw"

\* C21 (amended): generateDocFromCode fails when the remote call raises, and
\* what it throws is the value the remote call raised, with its message; when
\* the remote call returns no usable text it does not fail, it returns the
\* fixed placeholder; with a credential it fails in no other case.
C21_FailsOnRaiseOnly ==
  DocCallEnded =>
    /\ lastOp[2].upstream[1] = "threw"
         => /\ lastOp[2].outcome = <<"threw", lastOp[2].upstream[2]>>
            /\ lastOp[2].outcome[2].message = lastOp[2].upstream[2].message
    /\ lastOp[2].upstream = <<"text", "">>
         => lastOp[2].outcome = <<"returned", "No response generated.">>
    /\ lastOp[2].outcome[1] = "threw"
         => lastOp[2].upstream[1] = "threw" \/ AbsentOrEmpty(lastOp[2].apiKey)

\* C21 witness: an invocation with a credential has ended by throwing the
\* error that the remote call raised.
C21_Witness ==
  /\ DocCallEnded
  /\ lastOp[2].apiKey = Some("k1")
  /\ lastOp[2].upstream = <<"threw", [isError |-> TRUE, message |-> "quota exceeded"]>>
  /\ lastOp[2].outcome[1] = "threw"
  /\ lastOp[2].outcome[2].message = "quota exceeded"

\* C22: when the remote call returns with an empty text, generateDocFromCode
\* returns the fixed placeholder: the continuation of handleGenerate stores it
\* as the document and goes on to the session call, not to the catch (the
\* step does not set the workflow state); and the
\* cycle whose document is the placeholder ends in SUCCESS with the
\* placeholder as the document.
C22_EmptyTextIsSoftSuccess ==
  [][/\ lastOp' = <<"docSucceeded", "">>
          => /\ docResult' = "No response generated."
             /\ appState' = appState
             /\ \E k \in 1..Len(cycles') :
                  /\ cycles'[k].pc = "chat"
                  /\ cycles'[k].markdown = "No response generated."
     /\ (/\ lastOp'[1] = "sessionDone"
         /\ \E k \in 1..Len(cycles) :
              cycles[k].pc = "chat" /\ cycles[k].markdown = "No response generated.")
          => /\ appState' = "SUCCESS"
             /\ docResult' = "No response generated."]_vars

\* C22 witness: a cycle whose remote call returned an empty text has ended:
\* the workflow is in SUCCESS and the document is the placeholder.
C22_Witness ==
  /\ lastOp[1] = "sessionDone"
  /\ appState = "SUCCESS"
  /\ docResult = "No response generated."
  /\ cycles = <<>>

\* C23: called with an absent or empty credential, generateDocFromCode and
\* createChatSession each throw their missing-credential error; no remote
\* request is issued (none is counted, none is left in flight, no upstream
\* call is made) and no session is returned.
C23_MissingCredentialFails ==
  [][/\ (lastOp'[1] = "generateDocFromCode" /\ AbsentOrEmpty(lastOp'[2].apiKey))
          => /\ lastOp'[2].outcome = <<"threw", DocKeyError>>
             /\ lastOp'[2].requests = 0
             /\ lastOp'[2].upstream = <<"none">>
             /\ calls' = calls
     /\ (lastOp'[1] = "createChatSession" /\ AbsentOrEmpty(lastOp'[2].apiKey))
          => /\ lastOp'[2].outcome = <<"threw", ChatKeyError>>
             /\ lastOp'[2].upstream = <<"none">>
             /\ calls' = calls
     /\ \A k \in 1..Len(calls') : ~AbsentOrEmpty(calls'[k].apiKey)]_vars

\* C23 witness: createChatSession was called with the empty credential and
\* threw its missing-credential error.
C23_Witness ==
  /\ ChatCallEnded
  /\ lastOp[2].apiKey = Some("")
  /\ lastOp[2].outcome = <<"threw", ChatKeyError>>

\* C24: an invocation of generateDocFromCode with a credential has issued
\* exactly one remote request when it ends, whether it returns or throws, and
\* exactly one while it is suspended.
C24_OneRequestPerInvocation ==
  /\ (DocCallEnded /\ ~AbsentOrEmpty(lastOp[2].apiKey)) => lastOp[2].requests = 1
  /\ \A k \in 1..Len(calls) : calls[k].requests = 1

\* C24 witness: an invocation with a credential has ended by a failure of its
\* request, after one request.
C24_Witness ==
  /\ DocCallEnded
  /\ lastOp[2].apiKey = Some("k1")
  /\ lastOp[2].upstream[1] = "threw"
  /\ lastOp[2].outcome[1] = "threw"
  /\ lastOp[2].requests = 1

-----------------------------------------------------------------------------
(* The transcript of the chat view                                         *)

\* s is the beginning of t
IsPrefix(s, t) == Len(s) <= Len(t) /\ SubSeq(t, 1, Len(s)) = s

\* the sends that are outstanding on the session that chatSessionRef holds
OutstandingOnSession == {k \in 1..Len(sends) : sends[k].current}

\* the step resets the session: a generation cycle starts, or the workspace
\* is cleared
SessionReset ==
  \/ lastOp'[1] = "clickGenerate" /\ appState' = "GENERATING" /\ cycles' # cycles
  \/ lastOp' = <<"handleClearWorkspace", TRUE>>

\* C25 as claimed: when sendMessage fails on the session that is still the
\* open one, the transcript is the transcript before, whose last turn is the
\* user's turn that was sent, followed by one model turn with the fixed error
\* notice, and the sending flag is reset; a send that is then accepted appends
\* the user's turn.
C25_FailedSendIsRecoveredLocally ==
  [][/\ (lastOp'[1] = "sendFailed" /\ lastOp'[2].current)
          => /\ messages # <<>>
             /\ messages[Len(messages)].role = "user"
             /\ Len(messages') = Len(messages) + 1
             /\ IsPrefix(messages, messages')
             /\ messages'[Len(messages')].role = "model"
             /\ messages'[Len(messages')].text = ErrorNotice
             /\ ~isSending'
             /\ chatSessionRef' = chatSessionRef
     /\ lastOp' = <<"handleSend", TRUE>>
          => /\ Len(messages') = Len(messages) + 1
             /\ IsPrefix(messages, messages')
             /\ messages'[Len(messages')].role = "user"]_vars

\* C26 as claimed: an accepted send appends exactly one user turn, with the
\* text that was typed, and the success of sendMessage on the session that is
\* still the open one appends exactly one model turn directly after that user
\* turn.
C26_OnePairPerExchange ==
  [][/\ lastOp' = <<"handleSend", TRUE>>
          => /\ Len(messages') = Len(messages) + 1
             /\ IsPrefix(messages, messages')
             /\ messages'[Len(messages')].role = "user"
             /\ messages'[Len(messages')].text = input
     /\ (lastOp'[1] = "sendSucceeded" /\ lastOp'[2].current)
          => /\ messages # <<>>
             /\ messages[Len(messages)].role = "user"
             /\ Len(messages') = Len(messages) + 1
             /\ IsPrefix(messages, messages')
             /\ messages'[Len(messages')].role = "model"]_vars

\* C27 as claimed: in every reachable state at most one sendMessage call is
\* outstanding on the session that is in use.
C27_SendsAreSerialized == Cardinality(OutstandingOnSession) <= 1

\* C28 as claimed: every step leaves the transcript unchanged or appends to
\* it, unless the step resets the session (a generation cycle starts, or the
\* workspace is cleared).
C28_TranscriptIsAppendOnly ==
  [][SessionReset \/ IsPrefix(messages, messages')]_vars

\* C29 as claimed: no two messages of the transcript have the same id.
C29_MessageIdsAreUnique ==
  \A i, j \in 1..Len(messages) : i # j => messages[i].id # messages[j].id

-----------------------------------------------------------------------------
(* Cycles that were superseded                                             *)

\* the cycle that was started last is suspended at the document call: the
\* workflow is still GENERATING, so nothing has completed since that start
LatestCycleAtDocCall ==
  /\ appState = "GENERATING"
  /\ cycles # <<>>
  /\ cycles[Len(cycles)].pc = "doc"

\* C30 as claimed: document, session handle and workflow state reflect only
\* the cycle that was started last, or the cleared workspace: after a clear and
\* until a selection completes, the workflow is IDLE with no document and no
\* session; while the cycle that was started last awaits its document, there
\* is no document and no session.
C30_OnlyLatestCycleIsReflected ==
  /\ cleared => (appState = "IDLE" /\ docResult = "" /\ chatSessionRef = Null)
  /\ LatestCycleAtDocCall => (docResult = "" /\ chatSessionRef = Null)

-----------------------------------------------------------------------------
(* The workflow state machine                                              *)

\* C31 as claimed: every step into SUCCESS or into ERROR starts in GENERATING,
\* a step into ERROR is the failure of a document-generation call, and a step
\* out of IDLE goes to GENERATING.
C31_WorkflowTransitions ==
  [][/\ (appState' \in {"SUCCESS", "ERROR"} /\ appState' # appState)
          => appState = "GENERATING"
     /\ (appState' = "ERROR" /\ appState # "ERROR") => lastOp'[1] = "docFailed"
     /\ (appState = "IDLE" /\ appState' # "IDLE") => appState' = "GENERATING"]_vars

\* a start request can be served: the corpus is not empty and a credential is
\* stored
CanStart == ~CorpusEmpty(code) /\ ~KeyMissing(storedKey)

\* C32: from SUCCESS and from ERROR, a click on Generate with a non-empty
\* corpus and a stored credential moves the workflow to GENERATING; and in
\* every such state (with room for one more suspended handler) that click can
\* be made, so neither state is terminal.
C32_NoTerminalState ==
  /\ [][(/\ lastOp'[1] = "clickGenerate"
         /\ appState \in {"SUCCESS", "ERROR"}
         /\ CanStart)
          => /\ appState' = "GENERATING"
             /\ DocCalls' = DocCalls + 1]_vars
  /\ []((/\ appState \in {"SUCCESS", "ERROR"}
         /\ hasFiles
         /\ CanStart
         /\ NoMicrotask
         /\ Len(cycles) < MaxCycles)
          => ENABLED (ClickGenerate /\ appState' = "GENERATING"))

\* C32 witness: a click on Generate in ERROR, with a corpus and a credential,
\* has put the workflow in GENERATING.
C32_Witness ==
  /\ lastOp = <<"clickGenerate", "ERROR">>
  /\ appState = "GENERATING"
  /\ CanStart
  /\ DocCalls >= 1

\* C33 as claimed: when every remote call ends, a workflow in GENERATING
\* eventually leaves GENERATING (to SUCCESS, ERROR, or IDLE by a clear); and
\* while the document call of the cycle started last stays outstanding, a step
\* that is no clear and ends no document call leaves the workflow in GENERATING.
C33_CycleTerminates ==
  /\ (appState = "GENERATING") ~> (appState \in {"SUCCESS", "ERROR", "IDLE"})
  /\ [][(/\ LatestCycleAtDocCall
         /\ lastOp'[1] # "handleClearWorkspace"
         /\ DocCalls' = DocCalls
         /\ cycles' # <<>>
         /\ cycles'[Len(cycles')] = cycles[Len(cycles)])
          => appState' = "GENERATING"]_vars

-----------------------------------------------------------------------------
(* The active tab                                                          *)

\* the step starts a generation cycle
StartsCycle == lastOp'[1] \in {"clickGenerate", "handleGenerate"} /\ cycles' # cycles

\* C34: a step that makes the chat tab the active one is a click on the chat
\* tab taken while the workflow is in SUCCESS; a step that starts a generation
\* cycle and a confirmed clear leave the documentation tab active.
C34_ChatTabOnlyInSuccess ==
  [][/\ (activeTab # "chat" /\ activeTab' = "chat")
          => (appState = "SUCCESS" /\ lastOp' = <<"setActiveTab", "chat">>)
     /\ (lastOp' = <<"setActiveTab", "chat">> /\ appState # "SUCCESS")
          => activeTab' = activeTab
     /\ StartsCycle => activeTab' = "doc"
     /\ lastOp' = <<"handleClearWorkspace", TRUE>> => activeTab' = "doc"]_vars

\* C34 witness: the chat tab was clicked in SUCCESS and is the active tab.
C34_Witness ==
  /\ lastOp = <<"setActiveTab", "chat">>
  /\ activeTab = "chat"
  /\ appState = "SUCCESS"

\* C35 as claimed: the chat tab is the active tab only if the workflow is in
\* SUCCESS.
C35_ChatActiveImpliesSuccess == activeTab = "chat" => appState = "SUCCESS"

-----------------------------------------------------------------------------
(* The workspace: corpus text and manifest                                 *)

\* C36: the step that ends an invocation of processFiles leaves the workflow
\* state, the document, the session handle and the active tab as they are
\* (and the credential and its modal): it sets the corpus text, the manifest
\* and the reading flag only.
C36_SelectionTouchesWorkspaceOnly ==
  [][EndsRun => UNCHANGED <<appState, docResult, chatSessionRef, activeTab,
                            isKeyModalOpen, hasApiKey, storedKey, cycles>>]_vars

\* C36 witness: a selection has completed, with a file, while the workflow is
\* in SUCCESS with a document shown.
C36_Witness ==
  /\ lastOp = <<"readDone", TRUE>>
  /\ fileList # <<>>
  /\ readers = <<>>
  /\ appState = "SUCCESS"
  /\ docResult # ""

\* C37: the manifest is empty if and only if the corpus text is empty; a step
\* changes the manifest or the corpus text only if it ends an invocation of
\* processFiles or is a confirmed clear; the end of an invocation sets both,
\* the corpus text being the entries of the files of the new manifest, in the
\* order of the manifest; a confirmed clear empties both.
C37_ManifestAndCorpusTogether ==
  /\ [](fileList = <<>> <=> code = "")
  /\ [][/\ (fileList' # fileList \/ code' # code)
             => (EndsRun \/ lastOp' = <<"handleClearWorkspace", TRUE>>)
        /\ EndsRun
             => /\ Paths(fileList') = KeptPaths(RunFiles, RunWarned)
                /\ code' = CorpusOf(Paths(fileList'), RunFiles)
        /\ lastOp' = <<"handleClearWorkspace", TRUE>>
             => (fileList' = <<>> /\ code' = "")]_vars

\* C37 witness: two selections are processed at the same time; the one of
\* README.md has ended and fills the workspace with its manifest and its
\* corpus text, the one of src/a.ts, README.md is at its second read.
C37_Witness ==
  /\ Paths(fileList) = <<"README.md">>
  /\ code = CorpusOf(<<"README.md">>, <<FileR>>)
  /\ Len(readers) = 1
  /\ readers[1].files = <<FileA, FileR>>
  /\ readers[1].i = 2

-----------------------------------------------------------------------------
(* The shape of the transcript                                             *)

\* the role of the i-th message of a transcript that starts with the greeting
\* and goes on with exchanges
RoleAt(i) == IF i % 2 = 0 THEN "user" ELSE "model"

\* C38: while the chat view is mounted with a session, its transcript starts
\* with the greeting (id 'init', role model), no other message has that id,
\* and from the second message on the roles are user, model, user, model, ...;
\* the greeting is added by a step that starts from an empty transcript, and a
\* send is accepted only after a model turn.
C38_GreetingThenAlternation ==
  /\ []((ChatMounted /\ chatSessionRef # Null)
          => /\ messages # <<>>
             /\ messages[1].id = "init"
             /\ messages[1].role = "model"
             /\ \A i \in 2..Len(messages) :
                  /\ messages[i].id # "init"
                  /\ messages[i].role = RoleAt(i))
  /\ [][/\ (messages' # <<>> /\ messages'[1].id = "init" /\ messages' # messages
            /\ Len(messages') = 1)
             => messages = <<>>
        /\ lastOp' = <<"handleSend", TRUE>>
             => messages[Len(messages)].role = "model"]_vars

\* C38 witness: the chat view is mounted with a session and its transcript
\* holds the greeting and two exchanges, the first answered by the error
\* notice.
C38_Witness ==
  /\ ChatMounted
  /\ chatSessionRef # Null
  /\ Len(messages) = 5
  /\ messages[1].id = "init"
  /\ messages[2].role = "user"
  /\ messages[3].text = ErrorNotice
  /\ messages[4].role = "user"
  /\ messages[5].role = "model"

====
